---- MODULE Spec2Model ----
(***************************************************************************)
(* breamer-zero: a supervisor for one Chrome process, a page lifetime      *)
(* monitor, and a WebSocket relay from /devtools/* to Chrome's debug port. *)
(* Model of src/src/index.ts.  Node runs the program on one event loop:    *)
(* every action below is one run-to-completion step, from the start of a   *)
(* handler (or the resumption after an await) to its next await or return. *)
(***************************************************************************)
EXTENDS Integers, Sequences, FiniteSets, TLC

(***************************************************************************)
(* Bounds of the model.                                                    *)
(***************************************************************************)
\* GET /cdp requests served in one run (call 1 is the startup pre-launch).
MaxCdp == 1
\* Pages opened by clients in one run, besides each browser's initial page.
MaxPages == 2
\* Upgrade requests (relay connections) in one run.
MaxRelays == 2
\* Frames each side of one relay connection sends in one run.
MaxFrames == 2

\* The page events the tap's listeners log in one behaviour.
MaxEvents == 1

(***************************************************************************)
(* Program constants.                                                      *)
(***************************************************************************)
CHROME_DEBUG_PORT == 9222

\* env.TUNNEL_HOSTNAME (a required host name) as the README configures it,
\* and the host names the endpoint rewriter is tried with.
README_TUNNEL_HOSTNAME == "browser.yourdomain.com"
TunnelHosts == {README_TUNNEL_HOSTNAME, "t.example.org", "localhost"}

\* ensureBrowser invocations: 1 is the pre-launch at startup, the others are
\* the ensureBrowser calls of GET /cdp requests.  Invocation c launches
\* browser process c, if it launches one.
Calls == 1 .. (1 + MaxCdp)
StartupCall == 1
Browsers == Calls
NoBrowser == 0

\* Page p \in Browsers is the tab browser p opens by itself at launch; the
\* other pages are created later, by clients.
ClientPages == (1 + MaxCdp + 1) .. (1 + MaxCdp + MaxPages)
Pages == Browsers \cup ClientPages

VARIABLES
    browser,        \* let browser: Browser | null (0 is null)
    cdpSession,     \* let cdpSession: CDPSession | null (the browser it belongs to)
    pageTimeouts,   \* Map<Page, Timeout>: a function from pages to timer ids
    timers,         \* every timer setTimeout created: <<[page, st]>>
    proc,           \* the Chrome processes: what puppeteer.launch started
    call,           \* the ensureBrowser invocations and where each one waits
    resp,           \* the HTTP response of each GET /cdp
    tapOn,          \* browsers whose "targetcreated" page listener is registered
    pageSt,         \* the browser's pages
    pageOwner,      \* the browser each page belongs to
    hpc,            \* the targetcreated handler of each page
    closeListener,  \* pages with the once("close") listener registered
    closeReq,       \* history: pages the timer callback called page.close() on
    extClosedEarly, \* history: pages closed externally before their timer fired
    sdWait,         \* shutdown() invocations awaiting browser.close()
    exited,         \* "no", or how the process ended
    tunnelHost,     \* env.TUNNEL_HOSTNAME
    rwUrl,          \* rewriter: the local endpoint GET /cdp reads
    rwPath,         \* rewriter: the path that endpoint was built with
    rwOut,          \* rewriter: the response GET /cdp builds from rwUrl
    upgrade,        \* relay: each upgrade request, [url, st]
    clientWs,       \* relay: readyState of the client leg
    chromeWs,       \* relay: readyState of the upstream leg
    clientClosed,   \* relay: let clientClosed
    chromeClosed,   \* relay: let chromeClosed
    clientSent,     \* relay: the frames the client has sent since the handshake
    clientIn,       \* relay: client frames the relay has not handled yet
    toChrome,       \* relay: the frames passed to chromeWs.send
    chromeSent,     \* relay: the frames Chrome has sent
    chromeIn,       \* relay: Chrome frames the relay has not handled yet
    toClient,       \* relay: the frames passed to clientWs.send
    orphaned,       \* relay history: connections with both legs open when
                    \* the browser process went away
    legLog,         \* relay: the errors and close codes each connection's legs
                    \* have seen, and the close requests sent to them
    health,         \* GET /health: where the handler waits, and its last answer
    pageLog         \* the lines the page-level listeners of the tap have logged

supVars == <<browser, cdpSession, pageTimeouts, timers, proc, call, resp, tapOn,
             pageSt, pageOwner, hpc, closeListener, closeReq, extClosedEarly,
             sdWait, exited, tunnelHost, pageLog>>

rwVars == <<rwUrl, rwPath, rwOut>>

legVars == <<upgrade, clientWs, chromeWs, clientClosed, chromeClosed>>
frameVars == <<clientSent, clientIn, toChrome, chromeSent, chromeIn, toClient>>
relayVars == <<legVars, frameVars, orphaned, legLog>>

\* What the supervisor and the page monitor never touch.
nonSup == <<rwVars, relayVars, health>>

vars == <<supVars, nonSup>>

(***************************************************************************)
(* Maps (JavaScript Map) as functions on a finite domain.                  *)
(***************************************************************************)
EmptyMap == [x \in {} |-> 0]
MapSet(m, k, v) == [x \in (DOMAIN m) \cup {k} |-> IF x = k THEN v ELSE m[x]]
MapDelete(m, k) == [x \in (DOMAIN m) \ {k} |-> m[x]]

(***************************************************************************)
(* URLs are sequences of tokens; the delimiters are tokens of their own.   *)
(***************************************************************************)
\* The path of a browser's control endpoint: /devtools/browser/<id>.
browserPath(id) == <<"/", "devtools", "/", "browser", "/", id>>

\* A control endpoint as Chrome prints it when it starts listening:
\* ws://<address>:<port>/devtools/browser/<id>.
localEndpoint(host, port, id) ==
    <<"ws", ":", "/", "/", host, ":", ToString(port)>> \o browserPath(id)

\* browser.wsEndpoint() of browser b.
wsEndpoint(b) ==
    localEndpoint("127.0.0.1", CHROME_DEBUG_PORT, "uuid-" \o ToString(b))

\* The index of the first token at or after i that is in stops, or Len+1.
RECURSIVE FindFrom(_, _, _)
FindFrom(url, i, stops) ==
    IF i > Len(url) THEN Len(url) + 1
    ELSE IF url[i] \in stops THEN i
    ELSE FindFrom(url, i + 1, stops)

\* A rewriter that keeps everything after the scheme, the local authority
\* included.
pathnameWithAuthority(url) ==
    LET colon == FindFrom(url, 1, {":"})
        stop  == FindFrom(url, colon + 1, {"?", "#"})
    IN  SubSeq(url, colon + 1, stop - 1)

\* new URL(u).pathname: the scheme ends at the first ":", the authority
\* follows the "//" after it, and the path runs from the next "/" up to "?"
\* or "#".  A URL with no path has the pathname "/".
pathname(url) ==
    LET colon == FindFrom(url, 1, {":"})
        start == FindFrom(url, colon + 3, {"/", "?", "#"})
        stop  == FindFrom(url, start, {"?", "#"})
    IN  IF start >= stop \/ url[start] # "/" THEN <<"/">>
        ELSE SubSeq(url, start, stop - 1)

\* `wss://${env.TUNNEL_HOSTNAME}${path}`
tunnelEndpoint(host, path) == <<"wss", ":", "/", "/", host>> \o path

NoResp == [status |-> 0, wsEndpoint |-> <<>>, path |-> <<>>, message |-> ""]

\* c.json({wsEndpoint: tunnelEndpoint, path})
cdpOk(endpoint) ==
    LET path == pathname(endpoint)
    IN  [status |-> 200, wsEndpoint |-> tunnelEndpoint(tunnelHost, path),
         path |-> path, message |-> ""]

\* c.json({error: "Failed to get browser endpoint", message: ...}, 500)
cdpError(msg) ==
    [status |-> 500, wsEndpoint |-> <<>>, path |-> <<>>, message |-> msg]

(***************************************************************************)
(* The page lifetime monitor.                                              *)
(***************************************************************************)
\* clearTimeout(t): a timer that has not fired never fires.
clearTimeout(ts, t) ==
    IF ts[t].st = "pending" THEN [ts EXCEPT ![t].st = "cleared"] ELSE ts

\* The timer table and the map after schedulePageTimeout(page).
schedulePageTimeout(ts, m, p) ==
    LET cleared == IF p \in DOMAIN m THEN clearTimeout(ts, m[p]) ELSE ts
    IN  [timers |-> Append(cleared, [page |-> p, st |-> "pending"]),
         map    |-> MapSet(m, p, Len(ts) + 1)]

\* A clearPageTimeout that deletes the entry and forgets clearTimeout.
clearPageTimeoutDeleteOnly(ts, m, p) ==
    [timers |-> ts, map |-> MapDelete(m, p)]

\* The timer table and the map after clearPageTimeout(page).
clearPageTimeout(ts, m, p) ==
    IF p \in DOMAIN m
    THEN [timers |-> clearTimeout(ts, m[p]), map |-> MapDelete(m, p)]
    ELSE [timers |-> ts, map |-> m]

\* A timer callback that never finds the page closed.
isClosedNever(p) == FALSE

\* page.isClosed(): true once the page has emitted "close".  A page whose
\* browser process died emits no "close".
isClosed(p) == pageSt[p] = "closed"

\* What the "close" event of page p does to the monitor: the once("close")
\* listener, if it is registered, runs clearPageTimeout.
onPageClose(ts, m, p) ==
    IF p \in closeListener THEN clearPageTimeout(ts, m, p)
    ELSE [timers |-> ts, map |-> m]

(***************************************************************************)
(* The browser supervisor.                                                 *)
(***************************************************************************)
\* browser && browser.connected
handleAlive == browser # NoBrowser /\ proc[browser] = "live"

Running == exited = "no"

\* The supervisor and the monitor once the module has loaded.
SupInit ==
    /\ browser = NoBrowser
    /\ cdpSession = NoBrowser
    /\ pageTimeouts = EmptyMap
    /\ timers = <<>>
    \* the pre-launch has run ensureBrowser up to `await puppeteer.launch`
    /\ proc = [b \in Browsers |-> IF b = StartupCall THEN "launching" ELSE "none"]
    /\ call = [c \in Calls |-> IF c = StartupCall THEN "launch" ELSE "idle"]
    /\ resp = [c \in Calls |-> NoResp]
    /\ tapOn = {}
    /\ pageSt = [p \in Pages |-> "none"]
    /\ pageOwner = [p \in Pages |-> IF p \in Browsers THEN p ELSE NoBrowser]
    /\ hpc = [p \in Pages |-> "none"]
    /\ closeListener = {}
    /\ closeReq = {}
    /\ extClosedEarly = {}
    /\ sdWait = {}
    /\ exited = "no"
    /\ pageLog = <<>>

\* The endpoint rewriter at rest.
RewriteIdle ==
    /\ rwUrl = <<>>
    /\ rwPath = <<>>
    /\ rwOut = NoResp

Relays == 1 .. MaxRelays

\* The close codes a peer can send: normal closure, going away.
NormalClosure == "1000"
CloseCodes == {NormalClosure, "1001"}

\* A close() call with no argument sends a close frame with no status code
\* (the peer answers in kind and the close event reports 1005); a socket
\* that ends with no close frame reports 1006.
NoCode == "none"
NoStatusReceived == "1005"
AbnormalClosure == "1006"

\* No leg of the connection has failed, closed or been asked to close.
\* clientCode and chromeCode are the codes the close events of the legs
\* carry; toClient and toChrome are the arguments of the close() calls.
NoLegLog ==
    [clientErr |-> FALSE, chromeErr |-> FALSE, clientCode |-> "",
     chromeCode |-> "", toClient |-> "", toChrome |-> ""]

\* No upgrade request has arrived.
RelayIdle ==
    /\ upgrade = [r \in Relays |-> [url |-> <<>>, st |-> "none"]]
    /\ clientWs = [r \in Relays |-> "NONE"]
    /\ chromeWs = [r \in Relays |-> "NONE"]
    /\ clientClosed = [r \in Relays |-> FALSE]
    /\ chromeClosed = [r \in Relays |-> FALSE]
    /\ clientSent = [r \in Relays |-> <<>>]
    /\ clientIn = [r \in Relays |-> <<>>]
    /\ toChrome = [r \in Relays |-> <<>>]
    /\ chromeSent = [r \in Relays |-> <<>>]
    /\ chromeIn = [r \in Relays |-> <<>>]
    /\ toClient = [r \in Relays |-> <<>>]
    /\ orphaned = {}
    /\ legLog = [r \in Relays |-> NoLegLog]

\* No GET /health has arrived.
HealthIdle ==
    health = [st |-> "idle", of |-> NoBrowser, isConnected |-> FALSE,
              status |-> "", openPages |-> 0, trackedTimeouts |-> 0]

Init ==
    /\ SupInit
    /\ tunnelHost = README_TUNNEL_HOSTNAME
    /\ RewriteIdle
    /\ RelayIdle
    /\ HealthIdle

\* GET /cdp: ensureBrowser returns the handle at once when it is connected,
\* and otherwise starts a launch and waits for it.
CdpRequest(c) ==
    /\ Running
    /\ c # StartupCall
    /\ call[c] = "idle"
    /\ IF handleAlive
       THEN /\ call' = [call EXCEPT ![c] = "done"]
            /\ resp' = [resp EXCEPT ![c] = cdpOk(wsEndpoint(browser))]
            /\ proc' = proc
       ELSE /\ call' = [call EXCEPT ![c] = "launch"]
            /\ proc' = [proc EXCEPT ![c] = "launching"]
            /\ resp' = resp
    /\ UNCHANGED <<browser, cdpSession, pageTimeouts, timers, tapOn, pageSt,
                   pageOwner, hpc, closeListener, closeReq, extClosedEarly,
                   sdWait, exited, tunnelHost, nonSup,
                   pageLog>>

\* puppeteer.launch resolves: the handle is replaced, the disconnect observer
\* is registered, and setupCDPLogging runs to its first await.  The browser
\* has opened its first tab before launch resolves, so no listener of this
\* program sees that tab's targetcreated event.
LaunchResolve(c) ==
    /\ Running
    /\ call[c] = "launch"
    /\ proc[c] = "launching"
    /\ proc' = [proc EXCEPT ![c] = "live"]
    /\ browser' = c
    /\ pageSt' = [pageSt EXCEPT ![c] = "open"]
    /\ call' = [call EXCEPT ![c] = "tapSession"]
    /\ UNCHANGED <<cdpSession, pageTimeouts, timers, resp, tapOn, pageOwner,
                   hpc, closeListener, closeReq, extClosedEarly, sdWait,
                   exited, tunnelHost, nonSup,
                   pageLog>>

\* An ensureBrowser that has stored the handle before the launch settled.
LaunchRejectHandleStored(c) ==
    /\ Running
    /\ call[c] = "launch"
    /\ proc[c] = "launching"
    /\ proc' = [proc EXCEPT ![c] = "failed"]
    /\ call' = [call EXCEPT ![c] = "failed"]
    /\ browser' = c
    /\ resp' = IF c = StartupCall THEN resp
               ELSE [resp EXCEPT ![c] = cdpError("Failed to launch the browser process")]
    /\ UNCHANGED <<cdpSession, pageTimeouts, timers, tapOn, pageSt,
                   pageOwner, hpc, closeListener, closeReq, extClosedEarly,
                   sdWait, exited, tunnelHost, nonSup,
                   pageLog>>

\* puppeteer.launch rejects: ensureBrowser rejects before assigning the
\* handle.  GET /cdp answers 500; the pre-launch only logs.
LaunchReject(c) ==
    /\ Running
    /\ call[c] = "launch"
    /\ proc[c] = "launching"
    /\ proc' = [proc EXCEPT ![c] = "failed"]
    /\ call' = [call EXCEPT ![c] = "failed"]
    /\ resp' = IF c = StartupCall THEN resp
               ELSE [resp EXCEPT ![c] = cdpError("Failed to launch the browser process")]
    /\ UNCHANGED <<browser, cdpSession, pageTimeouts, timers, tapOn, pageSt,
                   pageOwner, hpc, closeListener, closeReq, extClosedEarly,
                   sdWait, exited, tunnelHost, nonSup,
                   pageLog>>

\* The end of ensureBrowser after setupCDPLogging returned:
\* browser.wsEndpoint() reads the handle as it is now, and `return browser`
\* returns it; a null handle makes the call throw a TypeError.
ensureBrowserReturn(c) ==
    IF browser = NoBrowser
    THEN /\ call' = [call EXCEPT ![c] = "failed"]
         /\ resp' = IF c = StartupCall THEN resp
                    ELSE [resp EXCEPT ![c] =
                            cdpError("Cannot read properties of null")]
    ELSE /\ call' = [call EXCEPT ![c] = "done"]
         /\ resp' = IF c = StartupCall THEN resp
                    ELSE [resp EXCEPT ![c] = cdpOk(wsEndpoint(browser))]

\* browserTarget.createCDPSession() resolves: cdpSession is assigned and
\* Target.setDiscoverTargets is sent.
TapSessionResolve(c) ==
    /\ Running
    /\ call[c] = "tapSession"
    /\ proc[c] = "live"
    /\ cdpSession' = c
    /\ call' = [call EXCEPT ![c] = "tapDiscover"]
    /\ UNCHANGED <<browser, pageTimeouts, timers, proc, resp, tapOn, pageSt,
                   pageOwner, hpc, closeListener, closeReq, extClosedEarly,
                   sdWait, exited, tunnelHost, nonSup,
                   pageLog>>

\* Target.setDiscoverTargets resolves: the targetcreated page listener is
\* registered, setupCDPLogging returns and ensureBrowser finishes.
TapDiscoverResolve(c) ==
    /\ Running
    /\ call[c] = "tapDiscover"
    /\ proc[c] = "live"
    /\ tapOn' = tapOn \cup {c}
    /\ ensureBrowserReturn(c)
    /\ UNCHANGED <<browser, cdpSession, pageTimeouts, timers, proc, pageSt,
                   pageOwner, hpc, closeListener, closeReq, extClosedEarly,
                   sdWait, exited, tunnelHost, nonSup,
                   pageLog>>

\* A setupCDPLogging with no catch: its rejection is ensureBrowser's.
TapRejectPropagates(c) ==
    /\ Running
    /\ call[c] \in {"tapSession", "tapDiscover"}
    /\ call' = [call EXCEPT ![c] = "failed"]
    /\ resp' = IF c = StartupCall THEN resp
               ELSE [resp EXCEPT ![c] = cdpError("Protocol error")]
    /\ UNCHANGED <<browser, cdpSession, pageTimeouts, timers, proc, tapOn,
                   pageSt, pageOwner, hpc, closeListener, closeReq,
                   extClosedEarly, sdWait, exited, tunnelHost, nonSup,
                   pageLog>>

\* Either await of setupCDPLogging rejects (always so once the browser is
\* gone): the catch logs it, no page listener is registered, and
\* ensureBrowser finishes.
TapReject(c) ==
    /\ Running
    /\ call[c] \in {"tapSession", "tapDiscover"}
    /\ ensureBrowserReturn(c)
    /\ UNCHANGED <<browser, cdpSession, pageTimeouts, timers, proc, tapOn,
                   pageSt, pageOwner, hpc, closeListener, closeReq,
                   extClosedEarly, sdWait, exited, tunnelHost, nonSup,
                   pageLog>>

\* A disconnect observer that starts a new launch by itself.
BrowserDisconnectedRelaunch(b) ==
    /\ Running
    /\ proc[b] = "live"
    /\ proc' = [proc EXCEPT ![b] = "launching"]
    /\ browser' = NoBrowser
    /\ cdpSession' = NoBrowser
    /\ UNCHANGED <<pageTimeouts, timers, call, resp, tapOn, pageSt, pageOwner,
                   hpc, closeListener, closeReq, extClosedEarly, sdWait, exited,
                   tunnelHost, nonSup,
                   pageLog>>

\* The relay connections with both legs open.
ActiveRelays == {r \in Relays : clientWs[r] = "OPEN" /\ chromeWs[r] = "OPEN"}

\* The upstream legs once the process that served the debug port is gone:
\* the sockets of its open connections end, and each chromeWs will emit
\* "close".
upstreamCut ==
    [r \in Relays |-> IF chromeWs[r] = "OPEN" THEN "CLOSING" ELSE chromeWs[r]]

\* browser.on("disconnected"): the process of browser b is gone.  Its pages
\* are gone with it and emit no "close"; the connections to its debug port
\* end.
BrowserDisconnected(b) ==
    /\ Running
    /\ proc[b] = "live"
    /\ proc' = [proc EXCEPT ![b] = "gone"]
    /\ browser' = NoBrowser
    /\ cdpSession' = NoBrowser
    /\ pageSt' = [p \in Pages |->
                    IF pageOwner[p] = b /\ pageSt[p] = "open" THEN "gone"
                    ELSE pageSt[p]]
    /\ chromeWs' = upstreamCut
    /\ legLog' = [r \in Relays |->
                    IF chromeWs[r] = "OPEN"
                    THEN [legLog[r] EXCEPT !.chromeCode = AbnormalClosure]
                    ELSE legLog[r]]
    /\ orphaned' = orphaned \cup ActiveRelays
    /\ UNCHANGED <<pageTimeouts, timers, call, resp, tapOn, pageOwner, hpc,
                   closeListener, closeReq, extClosedEarly, sdWait, exited,
                   tunnelHost, rwVars, upgrade, clientWs, clientClosed,
                   chromeClosed, frameVars, health, pageLog>>

\* The browser reports a new page target (a client opened a tab).  With the
\* page listener registered the handler starts and waits for target.page().
PageCreated(p, b) ==
    /\ Running
    /\ p \in ClientPages
    /\ pageSt[p] = "none"
    /\ proc[b] = "live"
    /\ pageSt' = [pageSt EXCEPT ![p] = "open"]
    /\ pageOwner' = [pageOwner EXCEPT ![p] = b]
    /\ hpc' = [hpc EXCEPT ![p] = IF b \in tapOn THEN "awaitPage" ELSE "none"]
    /\ UNCHANGED <<browser, cdpSession, pageTimeouts, timers, proc, call, resp,
                   tapOn, closeListener, closeReq, extClosedEarly, sdWait,
                   exited, tunnelHost, nonSup,
                   pageLog>>

\* target.page() resolves: the timeout is scheduled and the once("close")
\* listener is registered.  A "close" the page emitted while the handler
\* waited is not seen again.  The rest of the handler attaches a page session
\* and logging listeners inside its own try/catch and touches none of this
\* state.
HandlerPageResolve(p) ==
    /\ Running
    /\ hpc[p] = "awaitPage"
    /\ pageSt[p] \in {"open", "closed"}
    /\ LET r == schedulePageTimeout(timers, pageTimeouts, p)
       IN  /\ timers' = r.timers
           /\ pageTimeouts' = r.map
    /\ closeListener' = closeListener \cup {p}
    /\ hpc' = [hpc EXCEPT ![p] = "done"]
    /\ UNCHANGED <<browser, cdpSession, proc, call, resp, tapOn, pageSt,
                   pageOwner, closeReq, extClosedEarly, sdWait, exited,
                   tunnelHost, nonSup,
                   pageLog>>

\* target.page() rejects because the page or its browser went away: the
\* handler's catch swallows it.
HandlerPageReject(p) ==
    /\ Running
    /\ hpc[p] = "awaitPage"
    /\ pageSt[p] \in {"closed", "gone"}
    /\ hpc' = [hpc EXCEPT ![p] = "done"]
    /\ UNCHANGED <<browser, cdpSession, pageTimeouts, timers, proc, call, resp,
                   tapOn, pageSt, pageOwner, closeListener, closeReq,
                   extClosedEarly, sdWait, exited, tunnelHost, nonSup,
                   pageLog>>

\* page.createCDPSession() or Network.enable of the handler rejects: the
\* handler's catch swallows it.  The page keeps its timeout and its close
\* listener, and has no logging listeners.
HandlerAttachReject(p) ==
    /\ Running
    /\ hpc[p] = "done"
    /\ hpc' = [hpc EXCEPT ![p] = "untapped"]
    /\ UNCHANGED <<browser, cdpSession, pageTimeouts, timers, proc, call, resp,
                   tapOn, pageSt, pageOwner, closeListener, closeReq,
                   extClosedEarly, sdWait, exited, tunnelHost, nonSup,
                   pageLog>>

\* page.createCDPSession() and Network.enable of the handler resolve: the
\* network listeners of the page session and the navigation, load, console
\* and error listeners of the page are registered.
HandlerAttachResolve(p) ==
    /\ Running
    /\ hpc[p] = "done"
    /\ pageSt[p] = "open"
    /\ hpc' = [hpc EXCEPT ![p] = "tapped"]
    /\ UNCHANGED <<browser, cdpSession, pageTimeouts, timers, proc, call, resp,
                   tapOn, pageSt, pageOwner, closeListener, closeReq,
                   extClosedEarly, sdWait, exited, tunnelHost, nonSup,
                   pageLog>>

\* The logger channel of each listener the handler registers: the page
\* session's network events and the page's console and error events go to
\* logger.cdp, the page's navigation and load events to logger.page.
PageEvents ==
    [requestWillBeSent |-> "cdp", responseReceived |-> "cdp",
     loadingFailed |-> "cdp", framenavigated |-> "page", load |-> "page",
     domcontentloaded |-> "page", console |-> "cdp", pageerror |-> "cdp"]

\* A page listener that restarts the page's timeout when the page is active.
PageEventRestartsTimeout(p, e) ==
    /\ Running
    /\ hpc[p] = "tapped"
    /\ pageSt[p] = "open"
    /\ Len(pageLog) < MaxEvents
    /\ pageLog' = Append(pageLog, [page |-> p, channel |-> PageEvents[e]])
    /\ LET r == schedulePageTimeout(timers, pageTimeouts, p)
       IN  /\ timers' = r.timers
           /\ pageTimeouts' = r.map
    /\ UNCHANGED <<browser, cdpSession, proc, call, resp, tapOn, pageSt,
                   pageOwner, hpc, closeListener, closeReq, extClosedEarly,
                   sdWait, exited, tunnelHost, nonSup>>

\* Page p navigates, loads, writes to its console or does network traffic:
\* the listener of the event logs one line.
PageEvent(p, e) ==
    /\ Running
    /\ hpc[p] = "tapped"
    /\ pageSt[p] = "open"
    /\ Len(pageLog) < MaxEvents
    /\ pageLog' = Append(pageLog, [page |-> p, channel |-> PageEvents[e]])
    /\ UNCHANGED <<browser, cdpSession, pageTimeouts, timers, proc, call, resp,
                   tapOn, pageSt, pageOwner, hpc, closeListener, closeReq,
                   extClosedEarly, sdWait, exited, tunnelHost, nonSup>>

\* A client or the browser closes page p: the page emits "close".
PageCloseExternal(p) ==
    /\ Running
    /\ pageSt[p] = "open"
    /\ pageSt' = [pageSt EXCEPT ![p] = "closed"]
    /\ LET r == onPageClose(timers, pageTimeouts, p)
       IN  /\ timers' = r.timers
           /\ pageTimeouts' = r.map
    /\ closeListener' = closeListener \ {p}
    /\ extClosedEarly' = IF p \in closeReq THEN extClosedEarly
                         ELSE extClosedEarly \cup {p}
    /\ UNCHANGED <<browser, cdpSession, proc, call, resp, tapOn, pageOwner,
                   hpc, closeReq, sdWait, exited, tunnelHost, nonSup,
                   pageLog>>

\* The callback of timer t up to its await: a page that is not closed is
\* asked to close; for a closed page the callback only deletes the entry.
timerCallback(t) ==
    LET p == timers[t].page
    IN  IF ~isClosed(p)
        THEN /\ closeReq' = closeReq \cup {p}
             /\ timers' = [timers EXCEPT ![t].st = "running"]
             /\ pageTimeouts' = pageTimeouts
        ELSE /\ closeReq' = closeReq
             /\ timers' = [timers EXCEPT ![t].st = "done"]
             /\ pageTimeouts' = MapDelete(pageTimeouts, p)

\* env.PAGE_TIMEOUT_MS have passed since timer t was set.
TimerFire(t) ==
    /\ Running
    /\ t \in DOMAIN timers
    /\ timers[t].st = "pending"
    /\ timerCallback(t)
    /\ UNCHANGED <<browser, cdpSession, proc, call, resp, tapOn, pageSt,
                   pageOwner, hpc, closeListener, extClosedEarly, sdWait,
                   exited, tunnelHost, nonSup,
                   pageLog>>

\* page.close() of timer t's callback resolves: the page has closed (its
\* "close" is emitted first), then the callback deletes the entry.
TimerCloseResolve(t) ==
    /\ Running
    /\ t \in DOMAIN timers
    /\ timers[t].st = "running"
    /\ LET p == timers[t].page
           r == IF pageSt[p] = "open"
                THEN onPageClose(timers, pageTimeouts, p)
                ELSE [timers |-> timers, map |-> pageTimeouts]
       IN  /\ pageSt[p] \in {"open", "closed"}
           /\ pageSt' = [pageSt EXCEPT ![p] = "closed"]
           /\ closeListener' = closeListener \ {p}
           /\ timers' = [r.timers EXCEPT ![t].st = "done"]
           /\ pageTimeouts' = MapDelete(r.map, p)
    /\ UNCHANGED <<browser, cdpSession, proc, call, resp, tapOn, pageOwner,
                   hpc, closeReq, extClosedEarly, sdWait, exited, tunnelHost, nonSup,
                   pageLog>>

\* A timer callback with no try/catch around page.close(): the rejection
\* leaves the callback before the delete, nothing handles it, and Node ends
\* the process.
TimerCloseRejectUnhandled(t) ==
    /\ Running
    /\ t \in DOMAIN timers
    /\ timers[t].st = "running"
    /\ pageSt[timers[t].page] \in {"closed", "gone"}
    /\ timers' = [timers EXCEPT ![t].st = "done"]
    /\ exited' = "exit1"
    /\ UNCHANGED <<browser, cdpSession, pageTimeouts, proc, call, resp, tapOn,
                   pageSt, pageOwner, hpc, closeListener, closeReq,
                   extClosedEarly, sdWait, tunnelHost, nonSup,
                   pageLog>>

\* page.close() of timer t's callback rejects (the page closed meanwhile or
\* its browser is gone): the catch swallows it and the entry is deleted.
TimerCloseReject(t) ==
    /\ Running
    /\ t \in DOMAIN timers
    /\ timers[t].st = "running"
    /\ pageSt[timers[t].page] \in {"closed", "gone"}
    /\ timers' = [timers EXCEPT ![t].st = "done"]
    /\ pageTimeouts' = MapDelete(pageTimeouts, timers[t].page)
    /\ UNCHANGED <<browser, cdpSession, proc, call, resp, tapOn, pageSt,
                   pageOwner, hpc, closeListener, closeReq, extClosedEarly,
                   sdWait, exited, tunnelHost, nonSup,
                   pageLog>>

\* shutdown(), first part: every timeout of the map is cleared and the map
\* emptied.
clearAllPageTimeouts(ts, m) ==
    [t \in DOMAIN ts |->
        IF \E p \in DOMAIN m : m[p] = t THEN clearTimeout(ts, t)[t] ELSE ts[t]]

\* A shutdown that releases the handle before it asks the browser to close.
SignalHandleReleasedFirst ==
    /\ Running
    /\ timers' = clearAllPageTimeouts(timers, pageTimeouts)
    /\ pageTimeouts' = EmptyMap
    /\ browser' = NoBrowser
    /\ IF browser # NoBrowser
       THEN /\ sdWait' = sdWait \cup {browser}
            /\ exited' = exited
       ELSE /\ sdWait' = sdWait
            /\ exited' = "exit0"
    /\ UNCHANGED <<cdpSession, proc, call, resp, tapOn, pageSt,
                   pageOwner, hpc, closeListener, closeReq, extClosedEarly,
                   tunnelHost, nonSup,
                   pageLog>>

\* SIGINT or SIGTERM: shutdown() runs to `await browser.close()`, or to
\* process.exit when there is no browser.
Signal ==
    /\ Running
    /\ timers' = clearAllPageTimeouts(timers, pageTimeouts)
    /\ pageTimeouts' = EmptyMap
    /\ IF browser # NoBrowser
       THEN /\ sdWait' = sdWait \cup {browser}
            /\ exited' = exited
       ELSE /\ sdWait' = sdWait
            /\ exited' = "exit0"
    /\ UNCHANGED <<browser, cdpSession, proc, call, resp, tapOn, pageSt,
                   pageOwner, hpc, closeListener, closeReq, extClosedEarly,
                   tunnelHost, nonSup,
                   pageLog>>

\* browser.close() of a shutdown resolves: the browser process has ended (its
\* "disconnected" was emitted), the handle is released and the process exits.
ShutdownCloseResolve(b) ==
    /\ Running
    /\ b \in sdWait
    /\ proc' = [proc EXCEPT ![b] = "gone"]
    /\ pageSt' = [p \in Pages |->
                    IF pageOwner[p] = b /\ pageSt[p] = "open" THEN "gone"
                    ELSE pageSt[p]]
    /\ browser' = NoBrowser
    /\ cdpSession' = IF proc[b] = "live" THEN NoBrowser ELSE cdpSession
    /\ sdWait' = sdWait \ {b}
    /\ exited' = "exit0"
    /\ UNCHANGED <<pageTimeouts, timers, call, resp, tapOn, pageOwner, hpc,
                   closeListener, closeReq, extClosedEarly, tunnelHost, nonSup,
                   pageLog>>

\* browser.close() of a shutdown rejects: `browser = null` and process.exit(0)
\* are not reached.  shutdown is a signal listener, nothing handles its
\* rejected promise, and Node ends the process on the unhandled rejection
\* with exit code 1.
ShutdownCloseReject(b) ==
    /\ Running
    /\ b \in sdWait
    /\ sdWait' = sdWait \ {b}
    /\ exited' = "exit1"
    /\ UNCHANGED <<browser, cdpSession, pageTimeouts, timers, proc, call, resp,
                   tapOn, pageSt, pageOwner, hpc, closeListener, closeReq,
                   extClosedEarly, tunnelHost, nonSup,
                   pageLog>>

\* c.json({status, browser: {connected, openPages, trackedTimeouts}, ...})
healthOk(isConnected, pages) ==
    [st |-> "idle", of |-> NoBrowser, isConnected |-> isConnected,
     status |-> IF isConnected THEN "healthy" ELSE "degraded",
     openPages |-> pages, trackedTimeouts |-> Cardinality(DOMAIN pageTimeouts)]

\* GET /health: isConnected is read; with a handle the handler waits for
\* browser.pages(), without one it answers at once.
HealthRequest ==
    /\ Running
    /\ health.st = "idle"
    /\ health' = IF browser # NoBrowser
                 THEN [st |-> "pages", of |-> browser,
                       isConnected |-> handleAlive, status |-> "",
                       openPages |-> 0, trackedTimeouts |-> 0]
                 ELSE healthOk(FALSE, 0)
    /\ UNCHANGED <<supVars, rwVars, relayVars>>

\* browser.pages() resolves: the handler answers with the page count, the
\* isConnected it read before, and the size of the map as it is now.
HealthPagesResolve ==
    /\ Running
    /\ health.st = "pages"
    /\ proc[health.of] = "live"
    /\ health' = healthOk(health.isConnected,
                          Cardinality({p \in Pages : /\ pageOwner[p] = health.of
                                                     /\ pageSt[p] = "open"}))
    /\ UNCHANGED <<supVars, rwVars, relayVars>>

\* browser.pages() rejects because the browser is gone: the handler throws
\* and the framework answers 500.
HealthPagesReject ==
    /\ Running
    /\ health.st = "pages"
    /\ proc[health.of] # "live"
    /\ health' = [healthOk(health.isConnected, 0) EXCEPT !.status = "error"]
    /\ UNCHANGED <<supVars, rwVars, relayVars>>

HealthNext ==
    \/ HealthRequest
    \/ HealthPagesResolve
    \/ HealthPagesReject

\* The supervisor: launches, the diagnostics tap, disconnects, shutdown.
LaunchNext ==
    \/ \E c \in Calls : LaunchResolve(c)
    \/ \E c \in Calls : LaunchReject(c)
    \/ \E c \in Calls : TapSessionResolve(c)
    \/ \E c \in Calls : TapDiscoverResolve(c)
    \/ \E c \in Calls : TapReject(c)
    \/ \E b \in Browsers : BrowserDisconnected(b)
    \/ Signal
    \/ \E b \in Browsers : ShutdownCloseResolve(b)
    \/ \E b \in Browsers : ShutdownCloseReject(b)

\* The page lifetime monitor and the pages it watches.
PageNext ==
    \/ \E p \in Pages, b \in Browsers : PageCreated(p, b)
    \/ \E p \in Pages : HandlerPageResolve(p)
    \/ \E p \in Pages : HandlerPageReject(p)
    \/ \E p \in Pages : PageCloseExternal(p)
    \/ \E t \in 1 .. Cardinality(Pages) : TimerFire(t)
    \/ \E t \in 1 .. Cardinality(Pages) : TimerCloseResolve(t)
    \/ \E t \in 1 .. Cardinality(Pages) : TimerCloseReject(t)

Next ==
    \/ \E c \in Calls : CdpRequest(c)
    \/ LaunchNext
    \/ PageNext

\* The whole program: supervisor and page monitor.
Spec == Init /\ [][Next]_vars

\* The supervisor alone: no client opens or closes a page.
SupervisorNext ==
    \/ \E c \in Calls : CdpRequest(c)
    \/ LaunchNext

SupervisorSpec == Init /\ [][SupervisorNext]_vars

\* The supervisor with GET /health, the other handler that reads the handle.
LazyNext ==
    \/ SupervisorNext
    \/ HealthNext

LazySpec == Init /\ [][LazyNext]_vars

\* The page monitor with the browser of the startup pre-launch: no GET /cdp
\* arrives.
MonitorNext ==
    \/ LaunchNext
    \/ PageNext

MonitorSpec == Init /\ [][MonitorNext]_vars

\* The event loop runs every timer that is due and every promise of
\* puppeteer settles; what clients, the browser and the operator do (open or
\* close a page, crash, send a signal, complete browser.close()) is not
\* promised.
MonitorFairness ==
    /\ \A c \in Calls : WF_vars(LaunchResolve(c) \/ LaunchReject(c))
    /\ \A c \in Calls : WF_vars(TapSessionResolve(c) \/ TapDiscoverResolve(c)
                                  \/ TapReject(c))
    /\ \A p \in Pages : WF_vars(HandlerPageResolve(p) \/ HandlerPageReject(p))
    /\ \A t \in 1 .. Cardinality(Pages) :
          /\ WF_vars(TimerFire(t))
          /\ WF_vars(TimerCloseResolve(t) \/ TimerCloseReject(t))

FairMonitorSpec == Init /\ [][MonitorNext]_vars /\ MonitorFairness

\* The page monitor and the diagnostics tap, whose page-level attach can
\* fail too.
TapNext ==
    \/ MonitorNext
    \/ \E p \in Pages : HandlerAttachReject(p)

TapSpec == Init /\ [][TapNext]_vars

\* The page monitor with two client pages that are active after the tap has
\* attached its listeners.
PagePair == {p \in ClientPages : p <= 1 + MaxCdp + 2}

ActivityNext ==
    \/ LaunchNext
    \/ \E p \in PagePair, b \in Browsers : PageCreated(p, b)
    \/ \E p \in PagePair : HandlerPageResolve(p)
    \/ \E p \in PagePair : HandlerPageReject(p)
    \/ \E p \in PagePair : HandlerAttachResolve(p)
    \/ \E p \in PagePair, e \in DOMAIN PageEvents : PageEvent(p, e)
    \/ \E p \in Pages : PageCloseExternal(p)
    \/ \E t \in 1 .. Cardinality(Pages) : TimerFire(t)
    \/ \E t \in 1 .. Cardinality(Pages) : TimerCloseResolve(t)
    \/ \E t \in 1 .. Cardinality(Pages) : TimerCloseReject(t)

ActivitySpec == Init /\ [][ActivityNext]_vars

(***************************************************************************)
(* The endpoint rewriter of GET /cdp, tried on the endpoints a browser can  *)
(* print and on its own output.                                            *)
(***************************************************************************)
LocalHosts == {"127.0.0.1", "localhost", "0.0.0.0"}
DebugPorts == {CHROME_DEBUG_PORT, CHROME_DEBUG_PORT + 1}
BrowserIds == {"uuid-1", "abc123", "devtools"}

RewriteInit ==
    /\ SupInit
    /\ tunnelHost \in TunnelHosts
    /\ \E h \in LocalHosts, port \in DebugPorts, id \in BrowserIds :
          /\ rwUrl = localEndpoint(h, port, id)
          /\ rwPath = browserPath(id)
    /\ rwOut = NoResp
    /\ RelayIdle
    /\ HealthIdle

\* GET /cdp builds its response from the endpoint.
RewriteRespond ==
    /\ rwOut.status = 0
    /\ rwOut' = cdpOk(rwUrl)
    /\ UNCHANGED <<supVars, rwUrl, rwPath, relayVars, health>>

\* The rewritten endpoint is rewritten again.
RewriteAgain ==
    /\ rwOut.status = 200
    /\ rwUrl # rwOut.wsEndpoint
    /\ rwUrl' = rwOut.wsEndpoint
    /\ rwOut' = NoResp
    /\ UNCHANGED <<supVars, rwPath, relayVars, health>>

RewriteNext == RewriteRespond \/ RewriteAgain

RewriteSpec == RewriteInit /\ [][RewriteNext]_vars

(***************************************************************************)
(* The WebSocket relay: server.on("upgrade") and the handlers it registers *)
(* on the two legs of a connection.                                        *)
(***************************************************************************)
\* "/devtools/"
DEVTOOLS_PREFIX == <<"/", "devtools", "/">>

\* The request URLs tried: browser and page sessions, and URLs that only
\* look like them.
UpgradeUrls ==
    { browserPath("uuid-1"),
      <<"/", "devtools", "/", "page", "/", "p1">>,
      <<"/", "devtools">>,
      <<"/", "Devtools", "/", "browser", "/", "uuid-1">>,
      <<"/", "x", "/", "devtools", "/", "browser", "/", "uuid-1">>,
      <<"/", "json", "/", "version">>,
      <<"/">>,
      <<>> }

\* The frames a side sends.
Frames == {"text", "binary"}

\* A test that finds the prefix anywhere in the URL.
RECURSIVE includes(_, _)
includes(url, prefix) ==
    IF Len(url) < Len(prefix) THEN FALSE
    ELSE IF SubSeq(url, 1, Len(prefix)) = prefix THEN TRUE
    ELSE includes(Tail(url), prefix)

\* url.startsWith(prefix)
RECURSIVE startsWith(_, _)
startsWith(url, prefix) ==
    IF prefix = <<>> THEN TRUE
    ELSE IF url = <<>> THEN FALSE
    ELSE Head(url) = Head(prefix) /\ startsWith(Tail(url), Tail(prefix))

\* The log after the relay calls clientWs.close().
closeReqClient(r, log) ==
    IF clientWs[r] = "OPEN"
    THEN [log EXCEPT !.toClient = NoCode, !.clientCode = NoStatusReceived]
    ELSE log

\* The log after the relay calls chromeWs.close().
closeReqChrome(r, log) ==
    CASE chromeWs[r] = "OPEN" ->
             [log EXCEPT !.toChrome = NoCode, !.chromeCode = NoStatusReceived]
      [] chromeWs[r] = "CONNECTING" ->
             [log EXCEPT !.toChrome = NoCode, !.chromeCode = AbnormalClosure]
      [] OTHER -> log

\* The log after chromeWs emits "error" and its handler has run.
logChromeError(r) ==
    LET log == [legLog[r] EXCEPT !.chromeErr = TRUE,
                                 !.chromeCode = AbnormalClosure]
    IN  IF ~clientClosed[r] THEN closeReqClient(r, log) ELSE log

\* The log after clientWs emits "error" and its handler has run.
logClientError(r) ==
    LET log == [legLog[r] EXCEPT !.clientErr = TRUE,
                                 !.clientCode = AbnormalClosure]
    IN  IF ~chromeClosed[r] THEN closeReqChrome(r, log) ELSE log

\* readyState of a leg after ws.close(): an open leg starts its closing
\* handshake, a connecting leg aborts its connection (it will emit "error"
\* and "close"), a closing or closed leg stays as it is.
wsClose(st) ==
    CASE st = "OPEN" -> "CLOSING"
      [] st = "CONNECTING" -> "ABORTING"
      [] OTHER -> st

\* clientWs.on("close"): the upstream leg after the handler.
onClientClose(r) ==
    IF ~chromeClosed[r] /\ chromeWs[r] = "OPEN" THEN wsClose(chromeWs[r])
    ELSE chromeWs[r]

\* An upstream close handler that leaves the client leg as it is.
onChromeCloseKeepClient(r) == clientWs[r]

\* chromeWs.on("close"): the client leg after the handler.
onChromeClose(r) ==
    IF ~clientClosed[r] /\ clientWs[r] = "OPEN" THEN wsClose(clientWs[r])
    ELSE clientWs[r]

\* A client error handler that closes the upstream leg only when it is open.
onClientErrorOpenOnly(r) ==
    IF ~chromeClosed[r] /\ chromeWs[r] = "OPEN" THEN wsClose(chromeWs[r])
    ELSE chromeWs[r]

\* clientWs.on("error"): the upstream leg after the handler.
onClientError(r) ==
    IF ~chromeClosed[r] THEN wsClose(chromeWs[r]) ELSE chromeWs[r]

\* chromeWs.on("error"): the client leg after the handler.
onChromeError(r) ==
    IF ~clientClosed[r] THEN wsClose(clientWs[r]) ELSE clientWs[r]

\* server.on("upgrade"): a URL under /devtools/ gets its handshake and an
\* upstream connection to Chrome's debug port; any other socket is destroyed.
\* Requests are numbered in the order they arrive.
Upgrade(r, url) ==
    /\ upgrade[r].st = "none"
    /\ \A q \in Relays : q < r => upgrade[q].st # "none"
    /\ IF startsWith(url, DEVTOOLS_PREFIX)
       THEN /\ upgrade' = [upgrade EXCEPT ![r] = [url |-> url, st |-> "relayed"]]
            /\ clientWs' = [clientWs EXCEPT ![r] = "OPEN"]
            /\ chromeWs' = [chromeWs EXCEPT ![r] = "CONNECTING"]
       ELSE /\ upgrade' = [upgrade EXCEPT ![r] = [url |-> url, st |-> "destroyed"]]
            /\ UNCHANGED <<clientWs, chromeWs>>
    /\ UNCHANGED <<clientClosed, chromeClosed, frameVars, supVars, rwVars,
                   orphaned, legLog, health>>

\* The client sends a frame on its open connection.
ClientSend(r, f) ==
    /\ clientWs[r] = "OPEN"
    /\ Len(clientSent[r]) < MaxFrames
    /\ clientSent' = [clientSent EXCEPT ![r] = Append(@, f)]
    /\ clientIn' = [clientIn EXCEPT ![r] = Append(@, f)]
    /\ UNCHANGED <<legVars, toChrome, chromeSent, chromeIn, toClient, supVars,
                   rwVars, orphaned, legLog, health>>

\* A relay that handles the newest waiting client frame first.
ClientMessageNewestFirst(r) ==
    /\ clientWs[r] \in {"OPEN", "CLOSING"}
    /\ clientIn[r] # <<>>
    /\ clientIn' = [clientIn EXCEPT ![r] = SubSeq(@, 1, Len(@) - 1)]
    /\ toChrome' = IF chromeWs[r] = "OPEN"
                   THEN [toChrome EXCEPT ![r] =
                           Append(@, clientIn[r][Len(clientIn[r])])]
                   ELSE toChrome
    /\ UNCHANGED <<legVars, clientSent, chromeSent, chromeIn, toClient,
                   supVars, rwVars, orphaned, legLog, health>>

\* clientWs.on("message"): the frame goes to Chrome if the upstream leg is
\* open.
ClientMessage(r) ==
    /\ clientWs[r] \in {"OPEN", "CLOSING"}
    /\ clientIn[r] # <<>>
    /\ clientIn' = [clientIn EXCEPT ![r] = Tail(@)]
    /\ toChrome' = IF chromeWs[r] = "OPEN"
                   THEN [toChrome EXCEPT ![r] = Append(@, Head(clientIn[r]))]
                   ELSE toChrome
    /\ UNCHANGED <<legVars, clientSent, chromeSent, chromeIn, toClient,
                   supVars, rwVars, orphaned, legLog, health>>

\* Chrome sends a frame on the open upstream connection.
ChromeSend(r, f) ==
    /\ chromeWs[r] = "OPEN"
    /\ Len(chromeSent[r]) < MaxFrames
    /\ chromeSent' = [chromeSent EXCEPT ![r] = Append(@, f)]
    /\ chromeIn' = [chromeIn EXCEPT ![r] = Append(@, f)]
    /\ UNCHANGED <<legVars, clientSent, clientIn, toChrome, toClient, supVars,
                   rwVars, orphaned, legLog, health>>

\* chromeWs.on("message"): the frame goes to the client if the client leg is
\* open.
ChromeMessage(r) ==
    /\ chromeWs[r] \in {"OPEN", "CLOSING"}
    /\ chromeIn[r] # <<>>
    /\ chromeIn' = [chromeIn EXCEPT ![r] = Tail(@)]
    /\ toClient' = IF clientWs[r] = "OPEN"
                   THEN [toClient EXCEPT ![r] = Append(@, Head(chromeIn[r]))]
                   ELSE toClient
    /\ UNCHANGED <<legVars, clientSent, clientIn, toChrome, chromeSent,
                   supVars, rwVars, orphaned, legLog, health>>

\* chromeWs.on("open"): the upstream connection is established.
UpstreamOpen(r) ==
    /\ chromeWs[r] = "CONNECTING"
    /\ chromeWs' = [chromeWs EXCEPT ![r] = "OPEN"]
    /\ UNCHANGED <<upgrade, clientWs, clientClosed, chromeClosed, frameVars,
                   supVars, rwVars, orphaned, legLog, health>>

\* The upstream connection cannot be established (nothing listens on the
\* debug port): chromeWs emits "error"; its "close" follows.
UpstreamConnectFail(r) ==
    /\ chromeWs[r] = "CONNECTING"
    /\ clientWs' = [clientWs EXCEPT ![r] = onChromeError(r)]
    /\ chromeWs' = [chromeWs EXCEPT ![r] = "CLOSING"]
    /\ legLog' = [legLog EXCEPT ![r] = logChromeError(r)]
    /\ UNCHANGED <<upgrade, clientClosed, chromeClosed, frameVars, supVars,
                   rwVars, orphaned, health>>

\* A transport error on the open upstream leg: chromeWs emits "error"; its
\* "close" follows.
ChromeError(r) ==
    /\ chromeWs[r] = "OPEN"
    /\ clientWs' = [clientWs EXCEPT ![r] = onChromeError(r)]
    /\ chromeWs' = [chromeWs EXCEPT ![r] = "CLOSING"]
    /\ chromeIn' = [chromeIn EXCEPT ![r] = <<>>]
    /\ legLog' = [legLog EXCEPT ![r] = logChromeError(r)]
    /\ UNCHANGED <<upgrade, clientClosed, chromeClosed, clientSent, clientIn,
                   toChrome, chromeSent, toClient, supVars, rwVars,
                   orphaned, health>>

\* A connection aborted by chromeWs.close() emits "error" and then "close".
ChromeAborted(r) ==
    /\ chromeWs[r] = "ABORTING"
    /\ chromeWs' = [chromeWs EXCEPT ![r] = "CLOSED"]
    /\ chromeClosed' = [chromeClosed EXCEPT ![r] = TRUE]
    \* the close handler finds the client leg closing or closed already
    /\ clientWs' = [clientWs EXCEPT ![r] = onChromeError(r)]
    /\ legLog' = [legLog EXCEPT ![r] = logChromeError(r)]
    /\ UNCHANGED <<upgrade, clientClosed, frameVars, supVars, rwVars,
                   orphaned, health>>

\* Chrome closes the upstream connection with close code k (its close frame
\* follows the frames it sent).
ChromeClosingWith(r, k) ==
    /\ chromeWs[r] = "OPEN"
    /\ chromeIn[r] = <<>>
    /\ chromeWs' = [chromeWs EXCEPT ![r] = "CLOSING"]
    /\ legLog' = [legLog EXCEPT ![r].chromeCode = k]
    /\ UNCHANGED <<upgrade, clientWs, clientClosed, chromeClosed, frameVars,
                   supVars, rwVars, orphaned, health>>

\* Chrome closes the connection normally.
ChromeClosing(r) == ChromeClosingWith(r, NormalClosure)

\* chromeWs.on("close"): the upstream leg has closed.
ChromeClosed(r) ==
    /\ chromeWs[r] = "CLOSING"
    /\ chromeWs' = [chromeWs EXCEPT ![r] = "CLOSED"]
    /\ chromeClosed' = [chromeClosed EXCEPT ![r] = TRUE]
    /\ clientWs' = [clientWs EXCEPT ![r] = onChromeClose(r)]
    /\ legLog' = [legLog EXCEPT ![r] =
                     IF ~clientClosed[r] /\ clientWs[r] = "OPEN"
                     THEN closeReqClient(r, @) ELSE @]
    /\ UNCHANGED <<upgrade, clientClosed, frameVars, supVars, rwVars,
                   orphaned, health>>

\* The client closes its connection with close code k (its close frame
\* follows the frames it sent).
ClientClosingWith(r, k) ==
    /\ clientWs[r] = "OPEN"
    /\ clientIn[r] = <<>>
    /\ clientWs' = [clientWs EXCEPT ![r] = "CLOSING"]
    /\ legLog' = [legLog EXCEPT ![r].clientCode = k]
    /\ UNCHANGED <<upgrade, chromeWs, clientClosed, chromeClosed, frameVars,
                   supVars, rwVars, orphaned, health>>

\* The client closes the connection normally.
ClientClosing(r) == ClientClosingWith(r, NormalClosure)

\* A transport error on the client leg: clientWs emits "error"; its "close"
\* follows.
ClientError(r) ==
    /\ clientWs[r] = "OPEN"
    /\ chromeWs' = [chromeWs EXCEPT ![r] = onClientError(r)]
    /\ clientWs' = [clientWs EXCEPT ![r] = "CLOSING"]
    /\ clientIn' = [clientIn EXCEPT ![r] = <<>>]
    /\ legLog' = [legLog EXCEPT ![r] = logClientError(r)]
    /\ UNCHANGED <<upgrade, clientClosed, chromeClosed, clientSent, toChrome,
                   chromeSent, chromeIn, toClient, supVars, rwVars,
                   orphaned, health>>

\* clientWs.on("close"): the client leg has closed.
ClientClosed(r) ==
    /\ clientWs[r] = "CLOSING"
    /\ clientWs' = [clientWs EXCEPT ![r] = "CLOSED"]
    /\ clientClosed' = [clientClosed EXCEPT ![r] = TRUE]
    /\ chromeWs' = [chromeWs EXCEPT ![r] = onClientClose(r)]
    /\ legLog' = [legLog EXCEPT ![r] =
                     IF ~chromeClosed[r] /\ chromeWs[r] = "OPEN"
                     THEN closeReqChrome(r, @) ELSE @]
    /\ UNCHANGED <<upgrade, chromeClosed, frameVars, supVars, rwVars,
                   orphaned, health>>

\* The two legs of the relay connections R: upgrade, open, close, error.
LegNext(R) ==
    \/ \E r \in R, url \in UpgradeUrls : Upgrade(r, url)
    \/ \E r \in R : UpstreamOpen(r)
    \/ \E r \in R : UpstreamConnectFail(r)
    \/ \E r \in R : ChromeError(r)
    \/ \E r \in R : ChromeAborted(r)
    \/ \E r \in R : ChromeClosing(r)
    \/ \E r \in R : ChromeClosed(r)
    \/ \E r \in R : ClientClosing(r)
    \/ \E r \in R : ClientError(r)
    \/ \E r \in R : ClientClosed(r)

\* The frames of the relay connections R.
FrameNext(R) ==
    \/ \E r \in R, f \in Frames : ClientSend(r, f)
    \/ \E r \in R : ClientMessage(r)
    \/ \E r \in R, f \in Frames : ChromeSend(r, f)
    \/ \E r \in R : ChromeMessage(r)

\* Relay connections share no state: each has its own two sockets and its
\* own clientClosed and chromeClosed.  The first connection, then, with
\* frames in both directions.
FirstRelay == {1}

RelayNext == LegNext(FirstRelay) \/ FrameNext(FirstRelay)

RelaySpec == Init /\ [][RelayNext]_vars

\* All the connections, with no frame sent on them.
UpgradeNext == LegNext(Relays)

UpgradeSpec == Init /\ [][UpgradeNext]_vars

\* The event loop delivers every frame received; a connection attempt
\* settles; a leg that is closing closes (ws ends a closing handshake that is
\* not answered).  That a client or Chrome closes, fails or sends is not
\* promised.
RelayFairness ==
    \A r \in FirstRelay :
        /\ WF_vars(ClientMessage(r))
        /\ WF_vars(ChromeMessage(r))
        /\ WF_vars(UpstreamOpen(r) \/ UpstreamConnectFail(r))
        /\ WF_vars(ChromeAborted(r))
        /\ WF_vars(ChromeClosed(r))
        /\ WF_vars(ClientClosed(r))

FairRelaySpec == Init /\ [][RelayNext]_vars /\ RelayFairness

\* The first connection, closed by either peer with any close code.
CodeNext ==
    \/ LegNext(FirstRelay)
    \/ \E r \in FirstRelay, k \in CloseCodes : ClientClosingWith(r, k)
    \/ \E r \in FirstRelay, k \in CloseCodes : ChromeClosingWith(r, k)

CodeSpec == Init /\ [][CodeNext]_vars

\* The relay connections with the browser of the startup pre-launch, which
\* can go away under them.
RelayPair == {1, 2}

CrashNext ==
    \/ LaunchResolve(StartupCall)
    \/ BrowserDisconnected(StartupCall)
    \/ LegNext(RelayPair)

\* A leg that is closing closes, on every connection.
CrashFairness ==
    \A r \in RelayPair :
        /\ WF_vars(ChromeAborted(r))
        /\ WF_vars(ChromeClosed(r))
        /\ WF_vars(ClientClosed(r))

FairCrashSpec == Init /\ [][CrashNext]_vars /\ CrashFairness

(***************************************************************************)
(* Claims about the supervisor, the page monitor and the rewriter.         *)
(***************************************************************************)
PendingTimers(p) ==
    {t \in DOMAIN timers : timers[t].page = p /\ timers[t].st = "pending"}

OpenPages == {p \in Pages : pageSt[p] = "open"}

ShutdownStarted == sdWait # {} \/ exited # "no"

\* C1: at any instant at most one browser process launched by the supervisor
\* is live or being launched: an ensureBrowser call that overlaps a launch in
\* flight starts no second launch.
C1_AtMostOneBrowser ==
    Cardinality({b \in Browsers : proc[b] \in {"launching", "live"}}) <= 1

\* C4: every page that stays open (no external close, no disconnect, no
\* shutdown) eventually gets a close request from the monitor's timer.
C4_StalePageGetsCloseRequest ==
    \A p \in Pages :
        [](pageSt[p] = "open"
              => <>(p \in closeReq \/ pageSt[p] # "open" \/ ShutdownStarted))

\* C5: the monitor never requests the close of a page that was closed
\* externally before its timer fired.
C5_NoCloseRequestAfterExternalClose == extClosedEarly \cap closeReq = {}

\* C5 witness: a page with a scheduled timeout was closed externally and its
\* timer was cancelled or its callback skipped the close.
C5_Witness ==
    \E t \in DOMAIN timers :
        /\ timers[t].page \in extClosedEarly
        /\ timers[t].st \in {"cleared", "done"}

\* C6: each page has at most one pending timeout, and every pending timeout
\* is the one the page-timer map holds for its page.
C6_OnePendingTimerPerPage ==
    /\ \A p \in Pages : Cardinality(PendingTimers(p)) <= 1
    /\ \A t \in DOMAIN timers :
          timers[t].st = "pending"
              => /\ timers[t].page \in DOMAIN pageTimeouts
                 /\ pageTimeouts[timers[t].page] = t

\* C6 witness: one page has its pending timeout in the map while the timeout
\* of another page has been cancelled and removed.
C6_Witness ==
    \E t, u \in DOMAIN timers :
        /\ timers[t].st = "pending"
        /\ pageTimeouts[timers[t].page] = t
        /\ timers[u].st = "cleared"
        /\ timers[u].page \notin DOMAIN pageTimeouts

\* C7: the page-timer map never holds more entries than the browser has open
\* pages.
C7_TrackedAtMostOpen ==
    Cardinality(DOMAIN pageTimeouts) <= Cardinality(OpenPages)

\* C9: GET /cdp answers a valid local endpoint with wss://<tunnel host><path>
\* and with that same path, the path being the one the browser produced;
\* rewriting the rewritten endpoint gives the same path again.
C9_RewritePreservesPath ==
    rwOut.status = 200
        => /\ rwOut.path = rwPath
           /\ rwOut.wsEndpoint = <<"wss", ":", "/", "/", tunnelHost>> \o rwPath

\* C9 witness: the rewriter has been applied to its own output.
C9_Witness ==
    /\ rwOut.status = 200
    /\ rwUrl[1] = "wss"
    /\ rwOut.wsEndpoint = rwUrl

\* The state after a failed launch: the call has failed, GET /cdp has
\* answered 500 with a message (the pre-launch answers nothing), the handle
\* does not reference the failed browser, and while the process runs with no
\* connected handle the next GET /cdp starts a launch.
LaunchFailureState ==
    \A c \in Calls :
        proc[c] = "failed"
            => /\ call[c] = "failed"
               /\ browser # c
               /\ IF c = StartupCall THEN resp[c] = NoResp
                  ELSE resp[c].status = 500 /\ resp[c].message # ""
               /\ \A d \in Calls :
                     (Running /\ ~handleAlive /\ call[d] = "idle")
                         => ENABLED (CdpRequest(d) /\ proc'[d] = "launching")

\* The step in which a launch fails leaves the handle as it was and the
\* process running.
LaunchFailureStep ==
    \A c \in Calls :
        (proc[c] = "launching" /\ proc'[c] = "failed")
            => browser' = browser /\ exited' = "no"

\* C10: a failed launch makes ensureBrowser fail, GET /cdp answer an error
\* status with a message and the pre-launch only log; the process keeps
\* running, the handle is not replaced, and a later call launches again.
C10_LaunchFailureContained ==
    [](LaunchFailureState) /\ [][LaunchFailureStep]_vars

\* C10 witness: the pre-launch failed, the next GET /cdp launched again and
\* failed too, and was answered 500.
C10_Witness ==
    /\ proc[StartupCall] = "failed"
    /\ \E c \in Calls \ {StartupCall} :
          proc[c] = "failed" /\ resp[c].status = 500

(***************************************************************************)
(* Claims about the relay.                                                 *)
(***************************************************************************)
\* C2: while both legs of a connection are up (the upstream leg connecting
\* or open), every frame the client has sent has been passed to Chrome or
\* is still waiting for its handler, in the order sent and unchanged; and
\* the same for the frames Chrome has sent while both legs are open.
C2_FramesDeliveredVerbatim ==
    \A r \in Relays :
        /\ (clientWs[r] = "OPEN" /\ chromeWs[r] \in {"CONNECTING", "OPEN"})
              => toChrome[r] \o clientIn[r] = clientSent[r]
        /\ (clientWs[r] = "OPEN" /\ chromeWs[r] = "OPEN")
              => toClient[r] \o chromeIn[r] = chromeSent[r]

\* C3: once a leg of a connection has closed, the other leg eventually
\* closes too.
C3_OtherLegCloses ==
    \A r \in Relays :
        /\ [](clientWs[r] = "CLOSED" => <>(chromeWs[r] = "CLOSED"))
        /\ [](chromeWs[r] = "CLOSED" => <>(clientWs[r] = "CLOSED"))

\* C8: an upgrade request gets its handshake and an upstream connection if
\* and only if its URL begins with /devtools/; the socket of any other
\* request is destroyed, with neither.
C8_UpgradeIffDevtoolsPrefix ==
    \A r \in Relays :
        upgrade[r].st # "none"
            => LET url == upgrade[r].url
                   reserved == /\ Len(url) >= 3
                               /\ url[1] = "/"
                               /\ url[2] = "devtools"
                               /\ url[3] = "/"
               IN  IF reserved
                   THEN /\ upgrade[r].st = "relayed"
                        /\ clientWs[r] # "NONE"
                        /\ chromeWs[r] # "NONE"
                   ELSE /\ upgrade[r].st = "destroyed"
                        /\ clientWs[r] = "NONE"
                        /\ chromeWs[r] = "NONE"

\* C8 witness: one request was relayed and its upstream connection opened;
\* another, with /devtools/ inside its URL but not at its start, was
\* destroyed.
C8_Witness ==
    \E r, q \in Relays :
        /\ upgrade[r].st = "relayed"
        /\ chromeWs[r] = "OPEN"
        /\ upgrade[q].st = "destroyed"
        /\ includes(upgrade[q].url, DEVTOOLS_PREFIX)

(***************************************************************************)
(* Claims about shutdown, relaunch and the diagnostics tap.                *)
(***************************************************************************)
\* A step in which a shutdown() starts: it reaches `await browser.close()`,
\* or process.exit(0) with nothing to wait for.
ShutdownStartStep ==
    \/ sdWait' # sdWait /\ sdWait \subseteq sdWait'
    \/ exited = "no" /\ exited' = "exit0" /\ sdWait' = sdWait

\* A step in which the browser.close() of a shutdown settles.
ShutdownSettleStep == sdWait' # sdWait /\ sdWait' \subseteq sdWait

\* The order of shutdown's steps: at its start the map is emptied and no
\* timer stays pending; then the browser is asked to close if the handle is
\* set, the handle being kept, and with no handle the process exits at once;
\* the handle is released in the step in which the close has completed.
ShutdownOrderStep ==
    /\ ShutdownStartStep
          => /\ pageTimeouts' = EmptyMap
             /\ \A t \in DOMAIN timers' : timers'[t].st # "pending"
             /\ IF browser # NoBrowser
                THEN browser' = browser /\ browser \in sdWait' /\ exited' = "no"
                ELSE sdWait' = sdWait /\ exited' = "exit0"
    /\ ShutdownSettleStep
          => \A b \in sdWait \ sdWait' :
                IF exited' = "exit0"
                THEN browser' = NoBrowser /\ proc'[b] = "gone"
                ELSE browser' = browser /\ exited' = "exit1"

\* C11: shutdown cancels every pending page timer and empties the map
\* first, then asks the browser to close if there is one, and releases the
\* handle only when the close has completed; with no browser it issues no
\* close request and still completes.
C11_ShutdownOrder ==
    /\ [][ShutdownOrderStep]_vars
    /\ [](exited = "exit0" => browser = NoBrowser)

\* C11 witness: a shutdown cancelled a pending page timer, closed the
\* running browser and exited with the handle released.
C11_Witness ==
    /\ exited = "exit0"
    /\ \E b \in Browsers : proc[b] = "gone"
    /\ \E t \in DOMAIN timers :
          timers[t].st = "cleared" /\ pageSt[timers[t].page] = "gone"

\* C12: every connection that had both legs open when the browser process
\* went away has its upstream leg closing or closed, and its client leg
\* eventually closes.
C12_OrphanedRelaysClose ==
    \A r \in Relays :
        /\ [](r \in orphaned => chromeWs[r] \in {"CLOSING", "CLOSED"})
        /\ [](r \in orphaned => <>(clientWs[r] = "CLOSED"))

\* C12 witness: two connections were active when the browser went away and
\* the client legs of both have closed.
C12_Witness ==
    /\ Cardinality(orphaned) >= 2
    /\ \A r \in orphaned : clientWs[r] = "CLOSED" /\ chromeWs[r] = "CLOSED"

\* A launch starts only in a step of an ensureBrowser call that found no
\* connected handle, and the handle is set only when such a launch resolves.
LazyRelaunchStep ==
    /\ (\E b \in Browsers : proc[b] # "launching" /\ proc'[b] = "launching")
          => /\ ~handleAlive
             /\ \E c \in Calls : /\ call[c] = "idle" /\ call'[c] = "launch"
                                 /\ proc'[c] = "launching"
    /\ (browser' # browser /\ browser' # NoBrowser)
          => /\ call[browser'] = "launch"
             /\ call'[browser'] # "launch"
             /\ proc'[browser'] = "live"

\* C13: a browser launch starts only inside an ensureBrowser call (the
\* pre-launch or a GET /cdp); no other handler starts one, so after a
\* disconnect the handle stays absent until the next ensureBrowser call.
C13_LaunchOnlyInEnsureRunning == [][LazyRelaunchStep]_vars

\* C13 witness: the browser has disconnected, GET /health has answered
\* degraded since, the handle is still absent and no launch is in flight.
C13_Witness ==
    /\ proc[StartupCall] = "gone"
    /\ browser = NoBrowser
    /\ health.status = "degraded"
    /\ \A b \in Browsers : proc[b] \notin {"launching", "live"}
    /\ Running

\* A step in which the tap of call c gives up at browser level: the call
\* leaves setupCDPLogging with no page listener registered.
TapFailedStep(c) ==
    /\ call[c] \in {"tapSession", "tapDiscover"}
    /\ call'[c] \in {"done", "failed"}
    /\ c \notin tapOn'

\* When the tap fails, ensureBrowser returns the handle it holds, and
\* nothing of the supervisor or the monitor changes; when the attach to a
\* page fails, the page keeps its timeout and no call is affected.
TapFailureContainedStep ==
    /\ \A c \in Calls :
          (TapFailedStep(c) /\ browser # NoBrowser)
              => /\ call'[c] = "done"
                 /\ c # StartupCall => resp'[c].status = 200
                 /\ browser' = browser
                 /\ proc' = proc
                 /\ exited' = exited
    /\ \A p \in Pages :
          (hpc[p] # "untapped" /\ hpc'[p] = "untapped")
              => /\ call' = call
                 /\ resp' = resp
                 /\ browser' = browser
                 /\ proc' = proc
                 /\ pageTimeouts' = pageTimeouts
                 /\ timers' = timers
                 /\ exited' = exited

C15_ShutdownReachesExit == [](sdWait # {} => <>(exited # "no"))

\* C16: at the exit of a completed shutdown the page-timer map is empty.
C16_MapEmptyAtExit == exited = "exit0" => pageTimeouts = EmptyMap

\* The timers ever scheduled for page p.
TimersOf(p) == {t \in DOMAIN timers : timers[t].page = p}

\* C17: every open page has had a timeout scheduled, unless its creation
\* handler is still waiting for target.page() or a shutdown has started.
C17_EveryPageHasTimeout ==
    \A p \in Pages :
        (pageSt[p] = "open" /\ hpc[p] # "awaitPage" /\ ~ShutdownStarted)
            => TimersOf(p) # {}

(***************************************************************************)
(* Claims about frame order, transport errors and close codes.             *)
(***************************************************************************)
\* s is t with some of its elements left out, the others in t's order.
RECURSIVE IsSubseq(_, _)
IsSubseq(s, t) ==
    IF s = <<>> THEN TRUE
    ELSE IF t = <<>> THEN FALSE
    ELSE IF Head(s) = Head(t) THEN IsSubseq(Tail(s), Tail(t))
    ELSE IsSubseq(s, Tail(t))

\* C18: in each direction of a connection the frames delivered are, in
\* order, frames of the sequence received: an order-preserving subsequence.
C18_FrameOrderPreserved ==
    \A r \in Relays :
        /\ IsSubseq(toChrome[r], clientSent[r])
        /\ IsSubseq(toClient[r], chromeSent[r])

\* C18 witness: two different frames went through in each direction, in the
\* order sent.
C18_Witness ==
    \E r \in Relays :
        /\ Len(toChrome[r]) >= 2 /\ toChrome[r][1] # toChrome[r][2]
        /\ Len(toClient[r]) >= 2 /\ toClient[r][1] # toClient[r][2]

\* C19: after a transport error on a leg the other leg is closed or has
\* been asked to close, and the process runs on.
C19_ErrorClosesOtherLeg ==
    \A r \in Relays :
        /\ legLog[r].clientErr => chromeWs[r] \notin {"OPEN", "CONNECTING"}
        /\ legLog[r].chromeErr => clientWs[r] # "OPEN"
        /\ (legLog[r].clientErr \/ legLog[r].chromeErr) => Running

\* C19 witness: one connection lost its client leg to an error, another
\* could not reach the debug port, and all four legs have closed.
C19_Witness ==
    \E r, q \in Relays :
        /\ legLog[r].clientErr
        /\ legLog[q].chromeErr /\ ~legLog[q].clientErr
        /\ \A x \in {r, q} : clientWs[x] = "CLOSED" /\ chromeWs[x] = "CLOSED"

\* C20: the close request the close handler of one leg sends to the other
\* leg carries the code the first leg closed with.
C20_CloseCodePropagated ==
    \A r \in Relays :
        /\ (clientClosed[r] /\ ~legLog[r].clientErr /\ legLog[r].toChrome # "")
              => legLog[r].toChrome = legLog[r].clientCode
        /\ (chromeClosed[r] /\ ~legLog[r].chromeErr /\ legLog[r].toClient # "")
              => legLog[r].toClient = legLog[r].chromeCode

\* A step that sets the handle to absent although the browser it referenced
\* is still connected, and that is not shutdown's `browser = null`.
HandleAbandonedStep ==
    /\ browser # NoBrowser
    /\ browser' = NoBrowser
    /\ proc'[browser] = "live"
    /\ sdWait' = sdWait

\* C23: the handle is cleared only by the disconnect of the browser it
\* references or by shutdown; no step sets it to absent while the browser it
\* references stays connected.
C23_HandleClearedOnlyByOwnDisconnect == [][~HandleAbandonedStep]_vars

\* The browser processes that are starting or running.
StartedBrowsers == {b \in Browsers : proc[b] \in {"launching", "live"}}

\* A step that ends the process while a browser process the supervisor
\* started has had no browser.close() call.
ExitWithoutCloseStep ==
    /\ exited = "no"
    /\ exited' # "no"
    /\ StartedBrowsers \ sdWait # {}

\* C24: when the process exits through shutdown, every browser process the
\* supervisor has started and that has not ended has been asked to close.
C24_EveryBrowserAskedToClose == [][~ExitWithoutCloseStep]_vars

\* The timers whose callback ends in this step.
CallbackEnds == {t \in DOMAIN timers : timers[t].st \in {"pending", "running"}
                                       /\ timers'[t].st = "done"}

\* What a step of a timer callback may do: page.close() is called only on
\* a page that is not closed; the end of the callback, after a close that
\* resolved or rejected or with no close at all, leaves the page without an
\* entry and changes nothing of the supervisor or the process.
TimerCallbackStep ==
    /\ \A p \in closeReq' \ closeReq :
          /\ ~isClosed(p)
          /\ \E t \in DOMAIN timers : /\ timers[t].page = p
                                      /\ timers[t].st = "pending"
                                      /\ timers'[t].st = "running"
    /\ \A t \in CallbackEnds :
          /\ timers[t].page \notin DOMAIN pageTimeouts'
          /\ UNCHANGED <<exited, browser, cdpSession, call, resp, sdWait>>

\* C22: a fired timer requests a close only for a page that is not closed;
\* however the close ends, nothing is propagated and the page's entry is
\* gone from the map once the callback has finished.
C22_TimerCallbackBestEffort ==
    /\ [][TimerCallbackStep]_vars
    /\ [](\A t \in DOMAIN timers :
            timers[t].st = "done" => timers[t].page \notin DOMAIN pageTimeouts)

\* Both ends of a callback have happened and the process runs on: one timer
\* found its page closed and requested nothing, another requested a close
\* that rejected because the browser went away.
C22_Witness ==
    /\ exited = "no"
    /\ \E t \in DOMAIN timers : /\ timers[t].st = "done"
                                /\ timers[t].page \notin closeReq
                                /\ pageSt[timers[t].page] = "closed"
    /\ \E t \in DOMAIN timers : /\ timers[t].st = "done"
                                /\ timers[t].page \in closeReq
                                /\ pageSt[timers[t].page] = "gone"

\* The timers that are cancelled in this step.
TimersCancelled == {t \in DOMAIN timers : timers[t].st = "pending"
                                          /\ timers'[t].st = "cleared"}

\* The step of shutdown that cancels the timeouts: every timer of the map is
\* cleared and the map is emptied.
ShutdownCancelStep ==
    /\ timers' = clearAllPageTimeouts(timers, pageTimeouts)
    /\ pageTimeouts' = EmptyMap
    /\ pageSt' = pageSt

\* What a step may do to the timeouts: a timer is created only by the
\* targetcreated handler of its page, as the handler resumes with the page;
\* a timer keeps its page and is never pending again once it has fired or was
\* cancelled; a pending timer is cancelled only by the close event of its
\* page or by shutdown; a page event that the tap logs leaves every timer
\* and the map as they are.
TimeoutStep ==
    /\ Len(timers') >= Len(timers)
    /\ \A t \in DOMAIN timers' \ DOMAIN timers :
          /\ hpc[timers'[t].page] = "awaitPage"
          /\ hpc'[timers'[t].page] = "done"
          /\ timers'[t].st = "pending"
    /\ \A t \in DOMAIN timers :
          /\ timers'[t].page = timers[t].page
          /\ timers[t].st # "pending" => timers'[t].st # "pending"
    /\ \A t \in TimersCancelled :
          \/ pageSt[timers[t].page] = "open" /\ pageSt'[timers[t].page] = "closed"
          \/ ShutdownCancelStep
    /\ pageLog' # pageLog => timers' = timers /\ pageTimeouts' = pageTimeouts

====
